---- MODULE Spec2Model ----
(***************************************************************************)
(* Delivery and retry engine of nestjs-queue-retry-worker.                 *)
(*                                                                         *)
(* Two BullMQ queues (MAIN = message-delivery, DEAD_LETTER =               *)
(* message-delivery-dead-letter), the MessageProcessor worker pool, the    *)
(* DeadLetterProcessor and the MessageQueueService facade.  Every awaited  *)
(* store operation of a handler is one step, so that the states between    *)
(* two awaits are states of the model.                                     *)
(***************************************************************************)
EXTENDS Integers, Sequences, FiniteSets, TLC

\* ------------------------------------------------------------------ bounds
MaxIds == 2             \* jobs ever created per queue, Spec and SpecFault
MaxSubmits == 1         \* producer submissions, Spec and SpecFault
MaxTicks == 16          \* clock ticks of BACKOFF_delay ms each, Spec and SpecFault
MaxSubmitTicks == 1     \* producers submit during the first ticks only
RequeueFromTick == 14   \* the operator's requeue calls start at this tick
PoolIds == 2            \* jobs ever created per queue, SpecPool
PoolSubmits == 2        \* producer submissions, SpecPool
PoolTicks == 1          \* clock ticks, SpecPool
MaxStatsCalls == 2       \* getQueueStats calls of the operator, SpecAdmin
RaceIds == 3            \* jobs ever created per queue, SpecRace
RaceTicks == 15         \* clock ticks, SpecRace: up to the last attempt
SlotsIds == 6           \* jobs ever created per queue, SpecSlots
SlotsSubmits == 6       \* producer submissions, SpecSlots
MaxAttemptArg == 10     \* largest attempt number passed to getBackoffDelay
MaxBackoffCalls == 2    \* getBackoffDelay calls in a row, SpecBackoff

\* ------------------------------------------------------- program constants
MAX_RETRY_ATTEMPTS == 5
BACKOFF_delay == 1000
concurrency == 5

\* ---------------------------------------------------------------- messages
Undefined == "<undefined>"

DeliveryChannel == {"http", "email", "internal"}

Messages ==
    { [id |-> "m1", channel |-> "http", metadata |-> Undefined],
      [id |-> "m2", channel |-> "internal", metadata |-> "{userId: 12345}"],
      [id |-> "m3", channel |-> "sms", metadata |-> Undefined] }

\* channel values a producer may send: the three kinds, and others
ChannelTypes == {"http", "email", "internal", "sms", "HTTP", ""}

ChannelMessages ==
    {[id |-> "c" \o t, channel |-> t, metadata |-> Undefined] : t \in ChannelTypes}

\* the configuration value ADMIN_EMAILS, split at ',' and trimmed
ADMIN_EMAILS == <<"ops@example.com", "oncall@example.com">>

\* messages of the errors a transport can raise ("" : an error without message)
TransportErrors == {"", "Simulated delivery failure"}

\* the message of the error a rejected store call throws
StoreError == "Connection is closed."

VARIABLES
    main,   \* MAIN queue: job id -> job (state, data, the store's counters)
    dl,     \* DEAD_LETTER queue: job id -> job
    now,    \* the clock, ms
    rq,     \* the requeueFromDeadLetter call in progress, or its outcome
    lim,    \* the bounds of the run: submissions and clock ticks
    stats,  \* the operator's getQueueStats calls: how many, and the last result
    calc,   \* the getBackoffDelay calls of a caller: the last one and the one before
    rq2     \* a requeueFromDeadLetter call of a second, concurrent request

vars == <<main, dl, now, rq, lim, stats, calc, rq2>>

MainIds == DOMAIN main
DlIds == DOMAIN dl

Slots == 1..concurrency

\* ------------------------------------------------------------ pure helpers
RECURSIVE Pow2(_)
Pow2(n) == IF n <= 0 THEN 1 ELSE 2 * Pow2(n - 1)

\* a backoff that grows by BACKOFF.delay per attempt
getBackoffDelay_linear(attemptCount) == BACKOFF_delay * attemptCount

\* queue.config.ts: BACKOFF.delay * Math.pow(2, attemptCount - 1)
getBackoffDelay(attemptCount) ==
    IF attemptCount >= 1
    THEN BACKOFF_delay * Pow2(attemptCount - 1)
    ELSE BACKOFF_delay \div Pow2(1 - attemptCount)

\* a backoff computed from the number of the next attempt
storeBackoff_nextAttempt(attemptsMade) == Pow2(attemptsMade) * BACKOFF_delay

\* the store's built-in 'exponential' backoff, configured by addMessage with
\* delay = BACKOFF.delay: 2^(attemptsMade-1) * delay, attemptsMade counted
\* after the failure
storeBackoff(attemptsMade) == Pow2(attemptsMade - 1) * BACKOFF_delay

\* an error text that is the error's message even when that is empty
errorMessageOf_raw(msg) == msg

\* message.processor.ts: error.message || 'Unknown error'
errorMessageOf(msg) == IF msg = "" THEN "Unknown error" ELSE msg

\* a factory whose switch falls back to the webhook handler
getChannel_fallback(channelType) ==
    CASE channelType = "email" ->
           [ok |-> TRUE, handler |-> "emailChannel", error |-> Undefined]
      [] channelType = "internal" ->
           [ok |-> TRUE, handler |-> "internalServiceChannel", error |-> Undefined]
      [] OTHER ->
           [ok |-> TRUE, handler |-> "httpWebhookChannel", error |-> Undefined]

\* DeliveryChannelFactory.getChannel: the handler the switch returns, or the
\* error its default branch throws
getChannel(channelType) ==
    CASE channelType = "http" ->
           [ok |-> TRUE, handler |-> "httpWebhookChannel", error |-> Undefined]
      [] channelType = "email" ->
           [ok |-> TRUE, handler |-> "emailChannel", error |-> Undefined]
      [] channelType = "internal" ->
           [ok |-> TRUE, handler |-> "internalServiceChannel", error |-> Undefined]
      [] OTHER ->
           [ok |-> FALSE, handler |-> Undefined,
            error |-> "Unknown delivery channel type: " \o channelType]

\* DeliveryChannelFactory.deliver: the set of error messages the delivery of
\* a message can be rejected with (resolution failure, or the transport's)
deliverErrors(message) ==
    IF ~getChannel(message.channel).ok
    THEN {getChannel(message.channel).error}
    ELSE IF getChannel(message.channel).handler = "internalServiceChannel"
         THEN {}
         ELSE TransportErrors

\* DeliveryChannelFactory.deliver: the handlers whose deliver it invokes for a
\* message, in order: the one getChannel returns, none when getChannel throws
deliverInvokes(message) ==
    IF getChannel(message.channel).ok
    THEN <<getChannel(message.channel).handler>>
    ELSE <<>>

\* whether the delivery of a message can succeed
deliverCanSucceed(message) == getChannel(message.channel).ok

\* ------------------------------------------------------------------ records
NoMessage == [id |-> Undefined, channel |-> Undefined, metadata |-> Undefined]

\* the store keeps job data as JSON text: JSON.stringify leaves out the
\* properties whose value is undefined
stringify(message) ==
    [k \in {f \in DOMAIN message : message[f] # Undefined} |-> message[k]]

\* a reader that yields null for a property the text does not have
parse_null(json) ==
    [k \in DOMAIN NoMessage |-> IF k \in DOMAIN json THEN json[k] ELSE "null"]

\* JSON.parse, and the read of a property: one the text does not have is
\* undefined
parse(json) ==
    [k \in DOMAIN NoMessage |-> IF k \in DOMAIN json THEN json[k] ELSE Undefined]

\* the admin alerts of a job: the recipients emailChannel.deliver was called
\* for, in order, those it rejected for, and whether the error left the loop
NoAlerts == [attempted |-> <<>>, failed |-> {}, thrown |-> FALSE]

\* the store writes of a process call: job.updateData calls and
\* deadLetterQueue.add calls that succeeded
NoEffects == [updates |-> 0, adds |-> 0]

NoMainJob ==
    [state |-> "none", phase |-> "-", message |-> NoMessage,
     attemptCount |-> 0, lastError |-> Undefined, firstAttemptedAt |-> 0,
     attemptsMade |-> 0, delay |-> 0, notBefore |-> 0, calls |-> 0,
     err |-> Undefined, lockedBy |-> {}, via |-> "-", delivered |-> FALSE,
     sent |-> NoMessage, alerts |-> NoAlerts, failedReason |-> Undefined,
     invoked |-> <<>>, effects |-> NoEffects]

NoDlJob ==
    [state |-> "none", message |-> NoMessage, attemptCount |-> 0,
     lastError |-> Undefined, firstAttemptedAt |-> 0,
     movedToDeadLetterAt |-> 0, from |-> 0, thrown |-> Undefined, runs |-> 0]

NoJobData ==
    [message |-> NoMessage, attemptCount |-> 0, firstAttemptedAt |-> 0,
     lastError |-> Undefined]

IdleRq ==
    [pc |-> "idle", jobId |-> 0, source |-> "-", message |-> NoMessage,
     newId |-> 0, result |-> "-", state |-> "-", again |-> FALSE,
     created |-> NoJobData]

NoCounts ==
    [mainQueue |-> [waiting |-> 0, active |-> 0, completed |-> 0,
                    failed |-> 0, delayed |-> 0],
     deadLetterQueue |-> [waiting |-> 0, active |-> 0, completed |-> 0]]

\* no getQueueStats call yet.  quiet: no queue operation ran since the last
\* call; consecutive: none ran between the last two calls; same: the last
\* call returned what the call before it returned
NoStats ==
    [calls |-> 0, result |-> NoCounts, quiet |-> FALSE,
     consecutive |-> FALSE, same |-> FALSE]

\* a queue operation ran: the next getQueueStats call does not directly
\* follow the last one
touched(s) == [s EXCEPT !.quiet = FALSE]

\* no getBackoffDelay call yet (arg: the attempt number the caller passes
\* next; n, delay: the argument and the result of the last call; prevN,
\* prevDelay: those of the call before it)
NoCalc ==
    [calls |-> 0, arg |-> 0, n |-> 0, delay |-> 0, prevN |-> 0, prevDelay |-> 0]

Present(q, id) == id \in DOMAIN q /\ q[id].state \notin {"none", "removed"}

CountIn(q, st) == Cardinality({i \in DOMAIN q : q[i].state = st})

\* the next id the store assigns in a queue (ids count up and are not reused)
NextId(q) == Cardinality({i \in DOMAIN q : q[i].state # "none"}) + 1

Submitted == Cardinality({j \in MainIds : main[j].via = "submit"})

InitWith(l) ==
    /\ main = [i \in 1..l.ids |-> NoMainJob]
    /\ dl = [i \in 1..l.ids |-> NoDlJob]
    /\ now = 0
    /\ rq = IdleRq
    /\ lim = l
    /\ stats = NoStats
    /\ calc = NoCalc
    /\ rq2 = IdleRq

Init == InitWith([ids |-> MaxIds, submits |-> MaxSubmits, ticks |-> MaxTicks])

\* more submissions than worker slots, and a clock that stands still
InitSlots == InitWith([ids |-> SlotsIds, submits |-> SlotsSubmits, ticks |-> 0])

\* a caller of getBackoffDelay about to pass some attempt number
InitBackoff ==
    /\ main = [i \in 1..MaxIds |-> NoMainJob]
    /\ dl = [i \in 1..MaxIds |-> NoDlJob]
    /\ now = 0
    /\ rq = IdleRq
    /\ lim = [ids |-> MaxIds, submits |-> MaxSubmits, ticks |-> MaxTicks]
    /\ stats = NoStats
    /\ calc \in {[NoCalc EXCEPT !.arg = n] : n \in 0..MaxAttemptArg}
    /\ rq2 = IdleRq

\* producers of messages of every channel value, and a clock that stands still
InitChannel == InitWith([ids |-> PoolIds, submits |-> PoolSubmits, ticks |-> 0])

\* room for the jobs of two requeue calls
InitRace == InitWith([ids |-> RaceIds, submits |-> MaxSubmits, ticks |-> RaceTicks])

\* two producers, and room for the job of a requeue
InitCollide ==
    InitWith([ids |-> RaceIds, submits |-> PoolSubmits, ticks |-> RaceTicks])

InitPool == InitWith([ids |-> PoolIds, submits |-> PoolSubmits, ticks |-> PoolTicks])

\* ------------------------------------------------- MessageQueueService
\* addMessage builds jobData {message, attemptCount: 1, firstAttemptedAt: new
\* Date()}
jobData(message) ==
    [message |-> message, attemptCount |-> 1, firstAttemptedAt |-> now,
     lastError |-> Undefined]

\* messageQueue.add(DELIVER, jobData, {attempts, backoff, ...}): the job is
\* WAITING under the next id, the store's own attempt counter at 0 (sent: the
\* message as the caller passed it)
addMessage(q, message, via) ==
    [q EXCEPT ![NextId(q)] =
        [NoMainJob EXCEPT !.state = "waiting",
                          !.message = parse(stringify(jobData(message).message)),
                          !.attemptCount = jobData(message).attemptCount,
                          !.firstAttemptedAt = jobData(message).firstAttemptedAt,
                          !.lastError = jobData(message).lastError,
                          !.via = via,
                          !.sent = message]]

\* QueueController.addMessage: a producer submits a message
submit(message) ==
    /\ NextId(main) \in MainIds
    /\ Submitted < lim.submits
    /\ now <= MaxSubmitTicks * BACKOFF_delay
    /\ main' = addMessage(main, message, "submit")
    /\ UNCHANGED <<dl, now, rq, lim, calc, rq2>>
    /\ stats' = touched(stats)

\* ------------------------------------------------------ the store's clock
Tick ==
    /\ now < lim.ticks * BACKOFF_delay
    /\ now' = now + BACKOFF_delay
    /\ UNCHANGED <<main, dl, rq, lim, stats, calc, rq2>>

\* the clock while a delayed job waits for its delay to run out
Elapse ==
    /\ \E j \in MainIds : main[j].state = "delayed" /\ main[j].notBefore > now
    /\ now' = now + BACKOFF_delay
    /\ UNCHANGED <<main, dl, rq, lim, stats, calc, rq2>>

\* the store's delay timer: a DELAYED job whose delay has elapsed is ready
Promote(j) ==
    /\ main[j].state = "delayed"
    /\ main[j].notBefore <= now
    /\ main' = [main EXCEPT ![j].state = "waiting", ![j].notBefore = 0]
    /\ UNCHANGED <<dl, now, rq, lim, calc, rq2>>
    /\ stats' = touched(stats)

\* ------------------------------------------------------ MessageProcessor
\* a reservation that does not exclude the jobs a worker already holds
Reservable_held(job) == job.state \in {"waiting", "active"}

\* a pool that takes a ready job although every slot is held
FreeSlots_spare ==
    {w \in 1..(concurrency + 1) : \A j \in MainIds : w \notin main[j].lockedBy}

\* the worker slots that hold no job
FreeSlots == {w \in Slots : \A j \in MainIds : w \notin main[j].lockedBy}

\* a job a worker slot may reserve: only a ready (WAITING) job
Reservable(job) == job.state = "waiting"

\* a free worker slot reserves a ready job and process() starts: it reads
\* job.data and invokes deliveryChannelFactory.deliver(message)
processStart(j) ==
    /\ Reservable(main[j])
    /\ FreeSlots # {}
    /\ LET w == CHOOSE x \in FreeSlots : \A y \in FreeSlots : x <= y IN
       main' = [main EXCEPT ![j].state = "active", ![j].phase = "deliver",
                            ![j].calls = @ + 1,
                            ![j].invoked = @ \o deliverInvokes(main[j].message),
                            ![j].effects = NoEffects,
                            ![j].lockedBy = @ \cup {w}]
    /\ UNCHANGED <<dl, now, rq, lim, calc, rq2>>
    /\ stats' = touched(stats)

\* deliver resolved: process returns and the store completes the job
processSuccess(j) ==
    /\ main[j].state = "active" /\ main[j].phase = "deliver"
    /\ deliverCanSucceed(main[j].message)
    /\ main' = [main EXCEPT ![j].state = "completed", ![j].phase = "-",
                            ![j].lockedBy = {}, ![j].delivered = TRUE]
    /\ UNCHANGED <<dl, now, rq, lim, calc, rq2>>
    /\ stats' = touched(stats)

\* a limit check that is one attempt early
maxAttemptsReached_early(attemptCount) == attemptCount >= MAX_RETRY_ATTEMPTS - 1

\* a limit check that is one attempt late
maxAttemptsReached_late(attemptCount) == attemptCount > MAX_RETRY_ATTEMPTS

\* process: if (attemptCount >= QUEUE_CONFIG.MAX_RETRY_ATTEMPTS)
maxAttemptsReached(attemptCount) == attemptCount >= MAX_RETRY_ATTEMPTS

\* a retry that counts the attempt twice
nextAttempt_twice(attemptCount) == attemptCount + 2

\* scheduleRetry: nextAttempt = job.data.attemptCount + 1
nextAttempt(attemptCount) == attemptCount + 1

\* a retry update that stamps the job anew
firstAttemptedAtOr_fresh(firstAttemptedAt, fresh) == fresh

\* scheduleRetry: job.data.firstAttemptedAt || new Date() (a value that is set
\* is a time, and not negative)
firstAttemptedAtOr(firstAttemptedAt, fresh) ==
    IF firstAttemptedAt >= 0 THEN firstAttemptedAt ELSE fresh

\* deliver rejected below the limit: scheduleRetry awaits job.updateData
\* ({...job.data, attemptCount: nextAttempt, lastError: errorMessage,
\*   firstAttemptedAt: job.data.firstAttemptedAt || new Date()})
scheduleRetry(j, e) ==
    /\ main[j].state = "active" /\ main[j].phase = "deliver"
    /\ e \in deliverErrors(main[j].message)
    /\ ~maxAttemptsReached(main[j].attemptCount)
    /\ main' = [main EXCEPT ![j].attemptCount = nextAttempt(@),
                            ![j].lastError = errorMessageOf(e),
                            ![j].firstAttemptedAt = firstAttemptedAtOr(@, now),
                            ![j].err = e,
                            ![j].effects.updates = @ + 1,
                            ![j].phase = "updated"]
    /\ UNCHANGED <<dl, now, rq, lim, calc, rq2>>
    /\ stats' = touched(stats)

\* a store that retries no job
storeRetries_never(attemptsMade) == FALSE

\* addMessage's option attempts: MAX_RETRY_ATTEMPTS: the store retries a job
\* that threw while it has counted fewer failed attempts than that
storeRetries(attemptsMade) == attemptsMade < MAX_RETRY_ATTEMPTS

\* a handler that sleeps through the backoff in its worker slot
slotsAfterThrow_sleep(job) == IF job.phase = "updated" THEN job.lockedBy ELSE {}

\* process threw: the handler has ended and holds no worker slot; the wait for
\* the retry is the store's (scheduleRetry: BullMQ will automatically retry)
slotsAfterThrow(job) == {}

\* a handler that throws a new error made of the logged text
rethrown_message(job) == job.lastError

\* process, after scheduleRetry: throw error, the error deliver rejected with
rethrown(job) == job.err

\* process threw (throw error, or a store call of its own rejected): the store
\* counts the failed attempt, keeps the message of the error as failedReason
\* and either delays the job by its exponential backoff or, its attempts used
\* up, fails it (removeOnFail: false keeps it)
storeFailed(j) ==
    /\ main[j].state = "active" /\ main[j].phase \in {"updated", "threw"}
    /\ LET made == main[j].attemptsMade + 1 IN
       main' = [main EXCEPT
           ![j].attemptsMade = made,
           ![j].phase = "-",
           ![j].err = Undefined,
           ![j].failedReason = IF main[j].phase = "updated"
                               THEN rethrown(main[j]) ELSE StoreError,
           ![j].lockedBy = slotsAfterThrow(main[j]),
           ![j].state = IF storeRetries(made) THEN "delayed" ELSE "failed",
           ![j].delay = IF storeRetries(made) THEN storeBackoff(made) ELSE 0,
           ![j].notBefore = IF storeRetries(made)
                            THEN now + storeBackoff(made) ELSE 0]
    /\ UNCHANGED <<dl, now, rq, lim, calc, rq2>>
    /\ stats' = touched(stats)

\* a loop that an alert failure ends: the error leaves sendAdminNotification
alertLoop_abort(emails, failed) ==
    LET bad == {i \in 1..Len(emails) : emails[i] \in failed} IN
    IF bad = {}
    THEN [attempted |-> emails, failed |-> {}, thrown |-> FALSE]
    ELSE LET i == CHOOSE x \in bad : \A y \in bad : x <= y IN
         [attempted |-> SubSeq(emails, 1, i), failed |-> {emails[i]},
          thrown |-> TRUE]

\* sendAdminNotification, the loop over the recipients: emailChannel.deliver
\* is awaited for each inside try/catch, a rejection is logged and the loop
\* goes on (failed: the recipients whose delivery rejects)
alertLoop(emails, failed) ==
    [attempted |-> emails,
     failed |-> {emails[i] : i \in {k \in 1..Len(emails) : emails[k] \in failed}},
     thrown |-> FALSE]

\* deliver rejected at the limit: moveToDeadLetter first awaits
\* sendAdminNotification, which returns at once when ADMIN_EMAILS is empty
\* and else alerts each recipient
sendAdminNotification(j, e) ==
    /\ main[j].state = "active" /\ main[j].phase = "deliver"
    /\ e \in deliverErrors(main[j].message)
    /\ maxAttemptsReached(main[j].attemptCount)
    /\ \E failed \in SUBSET {ADMIN_EMAILS[i] : i \in 1..Len(ADMIN_EMAILS)} :
          LET a == IF ADMIN_EMAILS = <<>> THEN NoAlerts
                   ELSE alertLoop(ADMIN_EMAILS, failed) IN
          main' = [main EXCEPT
              ![j].phase = IF a.thrown THEN "threw" ELSE "alerted",
              ![j].err = IF a.thrown THEN Undefined ELSE e,
              ![j].alerts = a]
    /\ UNCHANGED <<dl, now, rq, lim, calc, rq2>>
    /\ stats' = touched(stats)

\* a dead-letter record that keeps the lastError the job data already held
DeadLetterRecord_staleError(job, j) ==
    [state |-> "waiting", message |-> job.message,
     attemptCount |-> job.attemptCount, lastError |-> job.lastError,
     firstAttemptedAt |-> job.firstAttemptedAt,
     movedToDeadLetterAt |-> now, from |-> j, thrown |-> job.err, runs |-> 0]

\* the record moveToDeadLetter adds: {...job.data, lastError: errorMessage,
\* movedToDeadLetterAt: new Date()} (from, thrown: the MAIN job it comes from
\* and the error as the handler threw it)
DeadLetterRecord(job, j) ==
    [state |-> "waiting", message |-> job.message,
     attemptCount |-> job.attemptCount, lastError |-> errorMessageOf(job.err),
     firstAttemptedAt |-> job.firstAttemptedAt,
     movedToDeadLetterAt |-> now, from |-> j, thrown |-> job.err, runs |-> 0]

\* a terminal branch that also writes the last error into the MAIN job
moveToDeadLetter_update(j) ==
    /\ main[j].state = "active" /\ main[j].phase = "alerted"
    /\ NextId(dl) \in DlIds
    /\ dl' = [dl EXCEPT ![NextId(dl)] = DeadLetterRecord(main[j], j)]
    /\ main' = [main EXCEPT ![j].phase = "added",
                            ![j].lastError = errorMessageOf(main[j].err),
                            ![j].effects.updates = @ + 1,
                            ![j].effects.adds = @ + 1]
    /\ UNCHANGED <<now, rq, lim, calc, rq2>>
    /\ stats' = touched(stats)

\* moveToDeadLetter awaits deadLetterQueue.add
moveToDeadLetter(j) ==
    /\ main[j].state = "active" /\ main[j].phase = "alerted"
    /\ NextId(dl) \in DlIds
    /\ dl' = [dl EXCEPT ![NextId(dl)] = DeadLetterRecord(main[j], j)]
    /\ main' = [main EXCEPT ![j].phase = "added", ![j].effects.adds = @ + 1]
    /\ UNCHANGED <<now, rq, lim, calc, rq2>>
    /\ stats' = touched(stats)

\* process returned without throwing: the store completes the MAIN job
processReturn(j) ==
    /\ main[j].state = "active" /\ main[j].phase = "added"
    /\ main' = [main EXCEPT ![j].state = "completed", ![j].phase = "-",
                            ![j].err = Undefined, ![j].lockedBy = {}]
    /\ UNCHANGED <<dl, now, rq, lim, calc, rq2>>
    /\ stats' = touched(stats)

\* --------------------------------------------------- DeadLetterProcessor
\* the dead-letter worker (one slot) reserves an entry (runs: the number of
\* times DeadLetterProcessor.process was started for it)
deadLetterStart(d) ==
    /\ dl[d].state = "waiting"
    /\ CountIn(dl, "active") < 1
    /\ dl' = [dl EXCEPT ![d].state = "active", ![d].runs = @ + 1]
    /\ UNCHANGED <<main, now, rq, lim, calc, rq2>>
    /\ stats' = touched(stats)

\* a dead-letter handler that throws: the store fails the entry
deadLetterProcess_fails(d) ==
    /\ dl[d].state = "active"
    /\ dl' = [dl EXCEPT ![d].state = "failed"]
    /\ UNCHANGED <<main, now, rq, lim, calc, rq2>>
    /\ stats' = touched(stats)

\* a dead-letter worker whose queue drops an entry once it is processed
deadLetterProcess_remove(d) ==
    /\ dl[d].state = "active"
    /\ dl' = [dl EXCEPT ![d].state = "removed"]
    /\ UNCHANGED <<main, now, rq, lim, calc, rq2>>
    /\ stats' = touched(stats)

\* DeadLetterProcessor.process logs and returns: the entry is completed and kept
deadLetterProcess(d) ==
    /\ dl[d].state = "active"
    /\ dl' = [dl EXCEPT ![d].state = "completed"]
    /\ UNCHANGED <<main, now, rq, lim, calc, rq2>>
    /\ stats' = touched(stats)

\* ------------------------------------- MessageQueueService, requeue
\* a lookup that accepts a MAIN job in any state
requeueTarget_anyState(id) ==
    IF Present(dl, id)
    THEN [result |-> "found", source |-> "dead-letter queue",
          message |-> dl[id].message, state |-> dl[id].state]
    ELSE IF Present(main, id)
         THEN [result |-> "found", source |-> "failed jobs",
               message |-> main[id].message, state |-> main[id].state]
         ELSE [result |-> "NotFound", source |-> "failed jobs",
               message |-> NoMessage, state |-> "-"]

\* requeueFromDeadLetter, the lookup: deadLetterQueue.getJob first; only when
\* that finds nothing messageQueue.getJob, accepted iff job.getState() is
\* 'failed'; else the call throws
requeueTarget(id) ==
    IF Present(dl, id)
    THEN [result |-> "found", source |-> "dead-letter queue",
          message |-> dl[id].message, state |-> dl[id].state]
    ELSE IF Present(main, id)
         THEN IF main[id].state # "failed"
              THEN [result |-> "NotRequeueable", source |-> "failed jobs",
                    message |-> NoMessage, state |-> main[id].state]
              ELSE [result |-> "found", source |-> "failed jobs",
                    message |-> main[id].message, state |-> main[id].state]
         ELSE [result |-> "NotFound", source |-> "failed jobs",
               message |-> NoMessage, state |-> "-"]

\* a requeue that enqueues the message of the MAIN job it found before it
\* checks the job's state
requeueLookup_addFirst(id) ==
    /\ rq.pc \in {"idle", "done"}
    /\ now >= RequeueFromTick * BACKOFF_delay
    /\ LET t == requeueTarget(id) IN
       /\ rq' = [pc |-> IF t.result = "found" THEN "found" ELSE "done",
                 jobId |-> id, source |-> t.source, message |-> t.message,
                 newId |-> 0, result |-> t.result, state |-> t.state,
                 again |-> (dl[id].state = "removed"), created |-> NoJobData]
       /\ main' = IF t.result = "NotRequeueable" /\ NextId(main) \in MainIds
                  THEN addMessage(main, main[id].message, "requeue")
                  ELSE main
    /\ UNCHANGED <<dl, now, lim, calc, rq2>>
    /\ stats' = touched(stats)

\* requeueFromDeadLetter up to its throw statements: the lookup, which reads
\* the two queues and throws when it accepts no job
requeueLookup(id) ==
    /\ rq.pc \in {"idle", "done"}
    /\ now >= RequeueFromTick * BACKOFF_delay
    /\ LET t == requeueTarget(id) IN
       rq' = [pc |-> IF t.result = "found" THEN "found" ELSE "done",
              jobId |-> id, source |-> t.source, message |-> t.message,
              newId |-> 0, result |-> t.result, state |-> t.state,
              again |-> (dl[id].state = "removed"), created |-> NoJobData]
    /\ UNCHANGED <<main, dl, now, lim, calc, rq2>>
    /\ stats' = touched(stats)

\* a requeue that submits a message without content
requeueMessage_blank(data) == NoMessage

\* the message requeueFromDeadLetter submits: jobData = {...job.data,
\* attemptCount: 1, lastError: undefined} is built, and jobData.message alone
\* is passed to addMessage
requeueMessage(data) == data.message

\* a requeue that removes the original before it enqueues the new job
requeueAdd_removeFirst ==
    /\ rq.pc = "found"
    /\ dl' = IF rq.source = "dead-letter queue"
             THEN [dl EXCEPT ![rq.jobId].state = "removed"] ELSE dl
    /\ main' = IF rq.source = "dead-letter queue"
               THEN main ELSE [main EXCEPT ![rq.jobId].state = "removed"]
    /\ rq' = [rq EXCEPT !.pc = "added"]
    /\ UNCHANGED <<now, lim, calc, rq2>>
    /\ stats' = touched(stats)

\* await this.addMessage(jobData.message)
requeueAdd ==
    /\ rq.pc = "found"
    /\ NextId(main) \in MainIds
    /\ main' = addMessage(main, requeueMessage(rq), "requeue")
    /\ rq' = [rq EXCEPT !.pc = "added", !.newId = NextId(main),
                        !.created = jobData(requeueMessage(rq))]
    /\ UNCHANGED <<dl, now, lim, calc, rq2>>
    /\ stats' = touched(stats)

\* a requeue that leaves the original record in place
removed_kept(q, id) == q

\* the job a requeue removes: the one it looked up
removed(q, id) == [q EXCEPT ![id].state = "removed"]

\* await job.remove(): the store refuses to remove a job a worker holds
\* (ACTIVE), and the call throws; a job that is no longer there is not held,
\* and the call returns
requeueRemove ==
    /\ rq.pc = "added"
    /\ LET inDl == rq.source = "dead-letter queue"
           q == IF inDl THEN dl ELSE main
           locked == q[rq.jobId].state = "active" IN
       /\ rq' = [rq EXCEPT !.pc = "done",
                           !.result = IF locked THEN "Locked" ELSE "ok"]
       /\ dl' = IF inDl /\ ~locked THEN removed(dl, rq.jobId) ELSE dl
       /\ main' = IF ~inDl /\ ~locked THEN removed(main, rq.jobId) ELSE main
    /\ UNCHANGED <<now, lim, calc, rq2>>
    /\ stats' = touched(stats)

\* ------------------- MessageQueueService, requeue of a concurrent request
\* the service is a singleton without a lock: a second request runs the same
\* three awaited steps of requeueFromDeadLetter while the first is under way
concurrentLookup(id) ==
    /\ rq2.pc = "idle"
    /\ now >= RequeueFromTick * BACKOFF_delay
    /\ LET t == requeueTarget(id) IN
       rq2' = [pc |-> IF t.result = "found" THEN "found" ELSE "done",
               jobId |-> id, source |-> t.source, message |-> t.message,
               newId |-> 0, result |-> t.result, state |-> t.state,
               again |-> (dl[id].state = "removed"), created |-> NoJobData]
    /\ UNCHANGED <<main, dl, now, rq, lim, calc>>
    /\ stats' = touched(stats)

concurrentAdd ==
    /\ rq2.pc = "found"
    /\ NextId(main) \in MainIds
    /\ main' = addMessage(main, requeueMessage(rq2), "requeue")
    /\ rq2' = [rq2 EXCEPT !.pc = "added", !.newId = NextId(main),
                          !.created = jobData(requeueMessage(rq2))]
    /\ UNCHANGED <<dl, now, rq, lim, calc>>
    /\ stats' = touched(stats)

concurrentRemove ==
    /\ rq2.pc = "added"
    /\ LET inDl == rq2.source = "dead-letter queue"
           q == IF inDl THEN dl ELSE main
           locked == q[rq2.jobId].state = "active" IN
       /\ rq2' = [rq2 EXCEPT !.pc = "done",
                             !.result = IF locked THEN "Locked" ELSE "ok"]
       /\ dl' = IF inDl /\ ~locked THEN removed(dl, rq2.jobId) ELSE dl
       /\ main' = IF ~inDl /\ ~locked THEN removed(main, rq2.jobId) ELSE main
    /\ UNCHANGED <<now, rq, lim, calc>>
    /\ stats' = touched(stats)

\* ----------------------------- MessageQueueService, observation and removal
\* a delayed count that leaves out the jobs whose delay has run out
getDelayedCount_due(q) ==
    Cardinality({i \in DOMAIN q : q[i].state = "delayed" /\ q[i].notBefore > now})

\* messageQueue.getDelayedCount()
getDelayedCount(q) == CountIn(q, "delayed")

\* the structure getQueueStats returns: five counts of MAIN, three of
\* DEAD_LETTER (waiting, active, completed; its failed and delayed jobs are
\* not counted)
QueueCounts ==
    [mainQueue |-> [waiting |-> CountIn(main, "waiting"),
                    active |-> CountIn(main, "active"),
                    completed |-> CountIn(main, "completed"),
                    failed |-> CountIn(main, "failed"),
                    delayed |-> getDelayedCount(main)],
     deadLetterQueue |-> [waiting |-> CountIn(dl, "waiting"),
                          active |-> CountIn(dl, "active"),
                          completed |-> CountIn(dl, "completed")]]

\* getQueueStats: the counts are read and returned, nothing is written
getQueueStats ==
    /\ stats.calls < MaxStatsCalls
    /\ stats' = [calls |-> stats.calls + 1, result |-> QueueCounts,
                 quiet |-> TRUE, consecutive |-> stats.quiet,
                 same |-> (stats.calls >= 1 /\ QueueCounts = stats.result)]
    /\ UNCHANGED <<main, dl, now, rq, lim, calc, rq2>>

\* getJobById: messageQueue.getJob(jobId), which AdminController.getJobById
\* turns into 404 'Job not found' when it is undefined
getJobById(jobId) ==
    IF Present(main, jobId)
    THEN [result |-> "found", queue |-> "main", message |-> main[jobId].message,
          attemptCount |-> main[jobId].attemptCount]
    ELSE [result |-> "NotFound", queue |-> "-", message |-> NoMessage,
          attemptCount |-> 0]

\* a listing of the entries that are still to be processed
getDeadLetterJobs_waitingOnly == {d \in DlIds : dl[d].state = "waiting"}

\* getDeadLetterJobs: deadLetterQueue.getJobs(['waiting', 'completed'], 0, 10);
\* the default range holds more entries than a run creates
getDeadLetterJobs == {d \in DlIds : dl[d].state \in {"waiting", "completed"}}

\* removeJob: messageQueue.getJob(jobId), and job.remove() if there is one; the
\* store refuses to remove a job a worker holds, and then nothing changes
removeJob(jobId) ==
    /\ Present(main, jobId)
    /\ main[jobId].state # "active"
    /\ now >= RequeueFromTick * BACKOFF_delay
    /\ main' = removed(main, jobId)
    /\ UNCHANGED <<dl, now, rq, lim, calc, rq2>>
    /\ stats' = touched(stats)

\* ------------------------------------------------------- queue.config
\* a caller evaluates QUEUE_CONFIG.getBackoffDelay(attemptCount) for the
\* attempt number it holds, and then holds some other attempt number
backoffCall(next) ==
    /\ calc.calls < MaxBackoffCalls
    /\ calc' = [calls |-> calc.calls + 1, arg |-> next,
                n |-> calc.arg, delay |-> getBackoffDelay(calc.arg),
                prevN |-> calc.n, prevDelay |-> calc.delay]
    /\ UNCHANGED <<main, dl, now, rq, lim, stats, rq2>>

\* ------------------------------------------------- store failures
\* job.updateData rejects (store unavailable): scheduleRetry throws and the
\* job data is left as it was
updateDataFails(j, e) ==
    /\ main[j].state = "active" /\ main[j].phase = "deliver"
    /\ e \in deliverErrors(main[j].message)
    /\ ~maxAttemptsReached(main[j].attemptCount)
    /\ main' = [main EXCEPT ![j].phase = "threw"]
    /\ UNCHANGED <<dl, now, rq, lim, calc, rq2>>
    /\ stats' = touched(stats)

\* a terminal branch that swallows the error of deadLetterQueue.add
deadLetterAddFails_swallowed(j) ==
    /\ main[j].state = "active" /\ main[j].phase = "alerted"
    /\ main' = [main EXCEPT ![j].phase = "added"]
    /\ UNCHANGED <<dl, now, rq, lim, calc, rq2>>
    /\ stats' = touched(stats)

\* deadLetterQueue.add rejects: moveToDeadLetter, and with it process, throws
deadLetterAddFails(j) ==
    /\ main[j].state = "active" /\ main[j].phase = "alerted"
    /\ main' = [main EXCEPT ![j].phase = "threw", ![j].err = Undefined]
    /\ UNCHANGED <<dl, now, rq, lim, calc, rq2>>
    /\ stats' = touched(stats)

\* ------------------------------------------------------ specifications
ThrownErrors ==
    (TransportErrors \cup {getChannel(m.channel).error : m \in Messages})
        \ {Undefined}

NextProcessor ==
    \/ \E j \in MainIds : Promote(j)
    \/ \E j \in MainIds : processStart(j)
    \/ \E j \in MainIds : processSuccess(j)
    \/ \E j \in MainIds : \E e \in ThrownErrors : scheduleRetry(j, e)
    \/ \E j \in MainIds : storeFailed(j)

NextDeadLetter ==
    \/ \E j \in MainIds : \E e \in ThrownErrors : sendAdminNotification(j, e)
    \/ \E j \in MainIds : moveToDeadLetter(j)
    \/ \E j \in MainIds : processReturn(j)
    \/ \E d \in DlIds : deadLetterStart(d)
    \/ \E d \in DlIds : deadLetterProcess(d)

NextRequeue ==
    \/ \E id \in MainIds : requeueLookup(id)
    \/ requeueAdd
    \/ requeueRemove

NextStoreFailure ==
    \/ \E j \in MainIds : \E e \in ThrownErrors : updateDataFails(j, e)
    \/ \E j \in MainIds : deadLetterAddFails(j)

Next ==
    \/ \E m \in Messages : submit(m)
    \/ Tick
    \/ NextProcessor
    \/ NextDeadLetter
    \/ NextRequeue

NextFault == Next \/ NextStoreFailure

\* two messages whose delivery is rejected every time, a dead-letter queue
\* that may reject a record, and a request that requeues
NextCollide ==
    \/ \E m \in {x \in Messages : x.channel # "internal"} : submit(m)
    \/ Tick
    \/ \E j \in MainIds : Promote(j)
    \/ \E j \in MainIds : processStart(j)
    \/ \E j \in MainIds :
          \E e \in ThrownErrors \ {""} : scheduleRetry(j, e)
    \/ \E j \in MainIds : storeFailed(j)
    \/ \E j \in MainIds :
          \E e \in ThrownErrors \ {""} : sendAdminNotification(j, e)
    \/ \E j \in MainIds : moveToDeadLetter(j)
    \/ \E j \in MainIds : deadLetterAddFails(j)
    \/ \E j \in MainIds : processReturn(j)
    \/ NextRequeue

\* a webhook message whose delivery is rejected every time, its dead-letter
\* record, and two requests that requeue
NextRace ==
    \/ \E m \in {x \in Messages : x.channel = "http"} : submit(m)
    \/ Tick
    \/ \E j \in MainIds : Promote(j)
    \/ \E j \in MainIds : processStart(j)
    \/ \E j \in MainIds : \E e \in TransportErrors \ {""} : scheduleRetry(j, e)
    \/ \E j \in MainIds : storeFailed(j)
    \/ \E j \in MainIds :
          \E e \in TransportErrors \ {""} : sendAdminNotification(j, e)
    \/ \E j \in MainIds : moveToDeadLetter(j)
    \/ \E j \in MainIds : processReturn(j)
    \/ NextRequeue
    \/ \E id \in MainIds : concurrentLookup(id)
    \/ concurrentAdd
    \/ concurrentRemove

NextPool ==
    \/ \E m \in Messages : submit(m)
    \/ Tick
    \/ NextProcessor

\* submission, delivery with its retries, and dead-lettering; the clock runs
\* as long as a job waits for it
NextDelivery ==
    \/ \E m \in Messages : submit(m)
    \/ Elapse
    \/ NextProcessor
    \/ NextDeadLetter

\* the steps of the worker pool and of the store on MAIN job j
processStep(j) ==
    \/ Promote(j)
    \/ processStart(j)
    \/ processSuccess(j)
    \/ \E e \in ThrownErrors : scheduleRetry(j, e)
    \/ storeFailed(j)
    \/ \E e \in ThrownErrors : sendAdminNotification(j, e)
    \/ moveToDeadLetter(j)
    \/ processReturn(j)

\* the clock runs, the delay timer fires, a worker with a free slot takes a
\* ready job, and a started handler and store call come to an end
Fairness ==
    /\ WF_vars(Elapse)
    /\ \A j \in 1..MaxIds : WF_vars(processStep(j))
    /\ \A d \in 1..MaxIds : WF_vars(deadLetterStart(d) \/ deadLetterProcess(d))

\* a worker with a free slot takes a ready job, and a started handler and
\* store call come to an end; nothing is assumed about the clock
PoolFairness ==
    \A j \in 1..PoolIds :
        /\ WF_vars(processStart(j))
        /\ WF_vars(processSuccess(j)
                     \/ (\E e \in ThrownErrors : scheduleRetry(j, e))
                     \/ storeFailed(j))

NextAdmin ==
    \/ \E m \in Messages : submit(m)
    \/ Tick
    \/ NextProcessor
    \/ NextDeadLetter
    \/ getQueueStats
    \/ \E id \in MainIds : removeJob(id)

\* producers of messages whose delivery is rejected, and the worker pool,
\* within the time before the first backoff delay runs out
NextSlots ==
    \/ \E m \in {x \in Messages : x.channel = "http"} : submit(m)
    \/ \E j \in MainIds : processStart(j)
    \/ \E j \in MainIds : \E e \in TransportErrors \ {""} : scheduleRetry(j, e)
    \/ \E j \in MainIds : storeFailed(j)

\* messages of every channel value, and their first delivery
NextChannel ==
    \/ \E m \in ChannelMessages : submit(m)
    \/ \E j \in MainIds : processStart(j)
    \/ \E j \in MainIds : processSuccess(j)
    \/ \E j \in MainIds :
          \E e \in TransportErrors \cup
                    {getChannel(t).error : t \in ChannelTypes \ DeliveryChannel} :
              scheduleRetry(j, e)
    \/ \E j \in MainIds : storeFailed(j)

NextBackoff == \E n \in 0..MaxAttemptArg : backoffCall(n)

\* the store is reachable and every store operation succeeds
Spec == Init /\ [][Next]_vars

\* store operations of the processor may fail
SpecFault == Init /\ [][NextFault]_vars

\* several producers, the worker pool, the first retries
SpecPool == InitPool /\ [][NextPool]_vars

\* delivery under fair scheduling of the workers and of the delay timer
SpecLive == Init /\ [][NextDelivery]_vars /\ Fairness

\* the operator observes the queues and removes MAIN jobs, no requeue
SpecAdmin == Init /\ [][NextAdmin]_vars

\* the worker pool under fair scheduling, the clock free to stand still
SpecRetry == InitPool /\ [][NextPool]_vars /\ PoolFairness

\* two messages, one job FAILED in MAIN and one record in DEAD_LETTER
SpecCollide == InitCollide /\ [][NextCollide]_vars

\* two requests call requeueFromDeadLetter at the same time
SpecRace == InitRace /\ [][NextRace]_vars

\* the delivery of messages of every channel value
SpecChannel == InitChannel /\ [][NextChannel]_vars

\* more ready jobs than worker slots
SpecSlots == InitSlots /\ [][NextSlots]_vars

\* getBackoffDelay applied to the attempt numbers 0..MaxAttemptArg
SpecBackoff == InitBackoff /\ [][NextBackoff]_vars

\* ================================================================ claims
\* a dead-letter record was created for MAIN job j
DeadLettered(j) == \E d \in DlIds : dl[d].state # "none" /\ dl[d].from = j

\* the dead-letter records of messages whose channel resolves, so that every
\* failure of theirs was the handler's
HandlerFailed(d) ==
    dl[d].state # "none" /\ getChannel(dl[d].message.channel).ok

\* C1 (as claimed): every dead-letter record of a job that failed with handler
\* errors only has attemptCount = MAX_RETRY_ATTEMPTS, a non-empty lastError
\* equal to the message of the last attempt's error, and
\* movedToDeadLetterAt >= firstAttemptedAt
C1_LastErrorIsThrownMessage ==
    \A d \in DlIds : HandlerFailed(d) =>
        /\ dl[d].attemptCount = MAX_RETRY_ATTEMPTS
        /\ dl[d].lastError \notin {"", Undefined}
        /\ dl[d].lastError = dl[d].thrown
        /\ dl[d].movedToDeadLetterAt >= dl[d].firstAttemptedAt

\* C1 (amended): as claimed, but lastError is the message of the last attempt's
\* error or, when that error has no message, 'Unknown error'
C1_DeadLetterRecord ==
    \A d \in DlIds : HandlerFailed(d) =>
        /\ dl[d].attemptCount = MAX_RETRY_ATTEMPTS
        /\ dl[d].lastError \notin {"", Undefined}
        /\ dl[d].lastError =
              (IF dl[d].thrown = "" THEN "Unknown error" ELSE dl[d].thrown)
        /\ dl[d].movedToDeadLetterAt >= dl[d].firstAttemptedAt

C1_Witness ==
    \E d \in DlIds :
        /\ HandlerFailed(d) /\ dl[d].state = "waiting"
        /\ dl[d].thrown = "" /\ dl[d].lastError = "Unknown error"
        /\ main[dl[d].from].lastError = "Simulated delivery failure"

\* C2: a job whose handler fails on every attempt has its handler invoked
\* exactly MAX_RETRY_ATTEMPTS times: the dead-letter transition starts at the
\* 5th failure and at no earlier one, and after the 5th invocation the job is
\* never ready for a 6th
C2_ExactlyMaxAttempts ==
    \A j \in MainIds :
        /\ main[j].calls <= MAX_RETRY_ATTEMPTS
        /\ (DeadLettered(j) \/ main[j].phase \in {"alerted", "added"})
              => main[j].calls = MAX_RETRY_ATTEMPTS
        /\ main[j].calls = MAX_RETRY_ATTEMPTS
              => /\ main[j].state \in {"active", "completed"}
                 /\ main[j].phase \in {"deliver", "alerted", "added", "-"}
                 /\ (main[j].state = "completed"
                        => main[j].delivered \/ DeadLettered(j))

C2_Witness ==
    \E j \in MainIds :
        /\ DeadLettered(j) /\ ~main[j].delivered
        /\ main[j].state = "completed" /\ main[j].calls = MAX_RETRY_ATTEMPTS

\* C3: a delivery that succeeds on attempt n (1 <= n <= MAX_RETRY_ATTEMPTS) after
\* n-1 failures leaves the job COMPLETED in MAIN with attemptCount = n, the
\* handler invoked n times, and no dead-letter record
C3_SuccessOnAttempt ==
    \A j \in MainIds : main[j].delivered =>
        /\ main[j].state = "completed"
        /\ main[j].calls \in 1..MAX_RETRY_ATTEMPTS
        /\ main[j].attemptCount = main[j].calls
        /\ main[j].attemptsMade = main[j].calls - 1
        /\ ~DeadLettered(j)

C3_Witness ==
    \E j \in MainIds :
        /\ main[j].delivered /\ main[j].state = "completed"
        /\ main[j].attemptCount = MAX_RETRY_ATTEMPTS
        /\ main[j].calls = MAX_RETRY_ATTEMPTS

\* C4: 1 <= attemptCount <= MAX_RETRY_ATTEMPTS for every job of either queue;
\* attemptCount of a job never decreases, grows by exactly 1 at a failed
\* attempt below the limit and only there, and is left at the limit by the
\* failure that starts the dead-letter transition
C4_Range ==
    /\ \A j \in MainIds : Present(main, j) =>
          main[j].attemptCount \in 1..MAX_RETRY_ATTEMPTS
    /\ \A d \in DlIds : Present(dl, d) =>
          dl[d].attemptCount \in 1..MAX_RETRY_ATTEMPTS

C4_Step ==
    \A j \in MainIds : Present(main, j) =>
        /\ main'[j].attemptCount \in
              {main[j].attemptCount, main[j].attemptCount + 1}
        /\ (main[j].phase = "deliver" /\ main'[j].phase = "updated")
              <=> main'[j].attemptCount = main[j].attemptCount + 1
        /\ (main[j].phase = "deliver" /\ main'[j].phase = "alerted")
              => /\ main[j].attemptCount = MAX_RETRY_ATTEMPTS
                 /\ main'[j].attemptCount = MAX_RETRY_ATTEMPTS

C4_AttemptCount == []C4_Range /\ [][C4_Step]_vars

C4_Witness ==
    \E j \in MainIds :
        /\ main[j].phase = "alerted"
        /\ main[j].attemptCount = MAX_RETRY_ATTEMPTS
        /\ main[j].attemptsMade = MAX_RETRY_ATTEMPTS - 1

\* C5 (as claimed): the delay the store applies after the m-th failure is
\* BASE * 2^m = getBackoffDelay(m + 1), and no job is dead-lettered before
\* 2000 + 4000 + 8000 + 16000 ms have passed since its submission
C5_DelayIsNextAttemptBackoff ==
    /\ \A j \in MainIds : main[j].state = "delayed" =>
          main[j].delay = getBackoffDelay(main[j].attemptsMade + 1)
    /\ \A d \in DlIds : dl[d].state # "none" =>
          dl[d].movedToDeadLetterAt - dl[d].firstAttemptedAt >=
             getBackoffDelay(2) + getBackoffDelay(3) + getBackoffDelay(4)
               + getBackoffDelay(5)

\* the delays of the documented retry schedule, after the 1st..4th failure
RetrySchedule == <<1000, 2000, 4000, 8000>>

RECURSIVE ScheduleSum(_)
ScheduleSum(m) == IF m <= 0 THEN 0 ELSE RetrySchedule[m] + ScheduleSum(m - 1)

C8_RequeueCreatesFreshJob ==
    (rq.pc = "done" /\ rq.result = "ok" /\ rq.source = "dead-letter queue") =>
        /\ ~Present(dl, rq.jobId)
        /\ rq.newId \in MainIds /\ rq.newId # dl[rq.jobId].from
        /\ Present(main, rq.newId)
        /\ rq.created.attemptCount = 1
        /\ rq.created.lastError = Undefined
        /\ rq.created.message = dl[rq.jobId].message
        /\ rq.created.firstAttemptedAt >= dl[rq.jobId].movedToDeadLetterAt
        /\ main[rq.newId].message = dl[rq.jobId].message
        /\ main[rq.newId].firstAttemptedAt = rq.created.firstAttemptedAt
        /\ main[rq.newId].via = "requeue"

C8_Witness ==
    /\ rq.pc = "done" /\ rq.result = "ok" /\ rq.source = "dead-letter queue"
    /\ dl[rq.jobId].state = "removed"
    /\ main[rq.newId].state = "waiting" /\ main[rq.newId].attemptCount = 1

\* C9 (as claimed): a requeueFromDeadLetter of a dead-letter job that an earlier
\* call has requeued fails with NotFound and creates no MAIN job
C9_SecondRequeueNotFound ==
    (rq.pc # "idle" /\ rq.again) =>
        /\ rq.pc = "done"
        /\ rq.result = "NotFound"
        /\ rq.newId = 0

\* C10: the lookup of requeueFromDeadLetter(id) takes the DEAD_LETTER job with
\* that id if there is one; else the MAIN job with that id iff it is FAILED,
\* failing with NotRequeueable(state) for a MAIN job in another state; else it
\* fails with NotFound
C10_Step ==
    (rq.pc \in {"idle", "done"} /\ rq' # rq) =>
        LET id == rq'.jobId IN
        IF Present(dl, id)
        THEN rq'.pc = "found" /\ rq'.source = "dead-letter queue"
             /\ rq'.message = dl[id].message
        ELSE IF Present(main, id)
             THEN IF main[id].state = "failed"
                  THEN rq'.pc = "found" /\ rq'.source = "failed jobs"
                       /\ rq'.message = main[id].message
                  ELSE rq'.pc = "done" /\ rq'.result = "NotRequeueable"
                       /\ rq'.state = main[id].state
                       /\ rq'.state \in {"waiting", "delayed", "active", "completed"}
             ELSE rq'.pc = "done" /\ rq'.result = "NotFound"

C10_RequeueLookup == [][C10_Step]_vars

C10_Witness ==
    /\ rq.pc = "found" /\ rq.source = "failed jobs"
    /\ main[rq.jobId].state = "failed"

\* the MAIN jobs whose channel the registry cannot resolve
UnknownChannel(j) ==
    main[j].state # "none" /\ ~getChannel(main[j].message.channel).ok

\* C11 (as claimed): a job whose channel cannot be resolved at delivery time
\* is dead-lettered at the first failure with attemptCount = 1 and is never
\* retried: its handler lookup runs once, the job is never DELAYED, and its
\* dead-letter record has attemptCount = 1
C11_UnknownChannelTerminal ==
    \A j \in MainIds : UnknownChannel(j) =>
        /\ main[j].calls <= 1
        /\ main[j].attemptCount = 1
        /\ main[j].state # "delayed"
        /\ \A d \in DlIds :
              (dl[d].state # "none" /\ dl[d].from = j) => dl[d].attemptCount = 1

\* C12 (as claimed): addMessage rejects a message whose channel is not one of
\* http, email, internal, so that no job of either queue carries such a channel
C12_SubmitRejectsUnknownChannel ==
    /\ \A j \in MainIds : main[j].state # "none" =>
          main[j].message.channel \in DeliveryChannel
    /\ \A d \in DlIds : dl[d].state # "none" =>
          dl[d].message.channel \in DeliveryChannel

\* the dead-letter records created for MAIN job j
DeadLetterRecordsOf(j) == {d \in DlIds : dl[d].state # "none" /\ dl[d].from = j}

\* C13 (as claimed): once a job has been dead-lettered and its handler has
\* returned, MAIN holds no record of it in any state, and DEAD_LETTER holds
\* exactly one record of it
C13_DeadLetterMovesJob ==
    \A j \in MainIds : (DeadLettered(j) /\ main[j].state # "active") =>
        /\ ~Present(main, j)
        /\ Cardinality(DeadLetterRecordsOf(j)) = 1

\* the sum of the eight counts of a getQueueStats result
TotalCount(c) ==
    c.mainQueue.waiting + c.mainQueue.active + c.mainQueue.completed
      + c.mainQueue.failed + c.mainQueue.delayed
      + c.deadLetterQueue.waiting + c.deadLetterQueue.active
      + c.deadLetterQueue.completed

\* one message was submitted, no delivery of it has succeeded and nothing
\* was requeued
OneFailingSubmission ==
    /\ Submitted = 1
    /\ \A j \in MainIds : main[j].via # "requeue" /\ ~main[j].delivered

\* C14 (as claimed): with one message submitted, a handler that always fails
\* and no requeue, the counts getQueueStats returns add up to 1 at every
\* point of the job's life, and while the job is being retried exactly one of
\* main.active and main.delayed is non-zero (the hand-over from the delay
\* timer to a worker, during which the job is WAITING, is not taken as a
\* checkpoint)
C14_Conservation ==
    OneFailingSubmission =>
        /\ TotalCount(QueueCounts) = 1
        /\ \A j \in MainIds :
              (main[j].state \in {"delayed", "active"} /\ ~DeadLettered(j))
              => /\ QueueCounts.mainQueue.active + QueueCounts.mainQueue.delayed = 1
                 /\ QueueCounts.mainQueue.active * QueueCounts.mainQueue.delayed = 0

\* the last outcome of MAIN job j: delivered and COMPLETED, or in DEAD_LETTER
\* after MAX_RETRY_ATTEMPTS failed attempts
Terminal(j) ==
    \/ main[j].delivered /\ main[j].state = "completed"
    \/ DeadLettered(j) /\ main[j].calls = MAX_RETRY_ATTEMPTS /\ ~main[j].delivered

\* C15: under fair scheduling of the workers and of the delay timer every job
\* added by addMessage eventually is COMPLETED after a successful delivery or
\* has a record in DEAD_LETTER after MAX_RETRY_ATTEMPTS failed attempts
C15_EventuallyTerminal ==
    \A j \in 1..MaxIds : (main[j].state # "none") ~> Terminal(j)

C15_Witness ==
    \E j \in MainIds :
        /\ main[j].via = "submit" /\ Terminal(j) /\ DeadLettered(j)
        /\ main[j].attemptsMade = MAX_RETRY_ATTEMPTS - 1
        /\ \A d \in DeadLetterRecordsOf(j) : dl[d].state = "completed"

C17_NotFoundIffInNeitherQueue ==
    \A id \in MainIds :
        (getJobById(id).result = "NotFound")
            <=> (~Present(main, id) /\ ~Present(dl, id))

\* C18: getQueueStats changes no job of either queue, and a call that follows
\* another with no submission, processing step, removal or requeue in between
\* (time may pass) returns the same eight counts
C18_Same ==
    /\ (stats.calls >= 2 /\ stats.consecutive) => stats.same
    /\ (stats.calls >= 1 /\ stats.quiet) => stats.result = QueueCounts

C18_Pure ==
    stats'.calls # stats.calls =>
        /\ main' = main /\ dl' = dl /\ rq' = rq /\ now' = now
        /\ stats'.result = QueueCounts

C19_AlertFailureIsLogged ==
    \A j \in MainIds :
        /\ main[j].alerts.failed # {} =>
              /\ main[j].alerts.attempted = ADMIN_EMAILS
              /\ ~main[j].alerts.thrown
              /\ main[j].phase # "threw"
              /\ main[j].state \in {"active", "completed", "removed"}
              /\ main[j].state # "active" => DeadLettered(j)
        /\ (main[j].phase \in {"alerted", "added"} \/ DeadLettered(j)) =>
              main[j].alerts.attempted = ADMIN_EMAILS
        /\ \A d \in DeadLetterRecordsOf(j) :
              /\ dl[d].state \in {"waiting", "active", "completed", "removed"}
              /\ dl[d].state = "removed" =>
                    \E k \in MainIds :
                        main[k].via = "requeue" /\ main[k].sent = dl[d].message

C19_Witness ==
    \E j \in MainIds :
        /\ DeadLettered(j) /\ main[j].state = "completed"
        /\ main[j].alerts.attempted = ADMIN_EMAILS
        /\ main[j].alerts.failed = {ADMIN_EMAILS[i] : i \in 1..Len(ADMIN_EMAILS)}
        /\ \E d \in DeadLetterRecordsOf(j) : dl[d].state = "completed"

\* C20: an entry the dead-letter processor has processed is COMPLETED in
\* DEAD_LETTER, was processed once and is never processed again, is returned
\* by getDeadLetterJobs, and is found by requeueFromDeadLetter, which can
\* requeue it
C20_Kept ==
    \A d \in DlIds :
        /\ dl[d].runs <= 1
        /\ dl[d].state = "completed" =>
              /\ dl[d].runs = 1
              /\ d \in getDeadLetterJobs
              /\ requeueTarget(d).result = "found"
              /\ requeueTarget(d).source = "dead-letter queue"
              /\ requeueTarget(d).message = dl[d].message

C20_Step ==
    \A d \in DlIds : dl[d].state = "completed" =>
        /\ dl'[d].state \in {"completed", "removed"}
        /\ dl'[d].runs = dl[d].runs
        /\ dl'[d].state = "removed" =>
              (rq.pc = "added" /\ rq.jobId = d /\ rq'.result = "ok")

C20_ProcessedEntryIsKept == []C20_Kept /\ [][C20_Step]_vars

C20_Witness ==
    /\ rq.pc = "done" /\ rq.result = "ok" /\ rq.source = "dead-letter queue"
    /\ rq.state = "completed"
    /\ dl[rq.jobId].state = "removed" /\ dl[rq.jobId].runs = 1
    /\ Present(main, rq.newId)

\* C21: dead-lettering is monotonic: a record in DEAD_LETTER keeps its data and
\* stays there through every step of the message processor and of the
\* dead-letter processor, and no MAIN job is created from it; it leaves
\* DEAD_LETTER only in the remove step of a requeueFromDeadLetter of that
\* record, after that call created a new MAIN job carrying its message
C21_Step ==
    \A d \in DlIds : Present(dl, d) =>
        /\ dl'[d].state # "none"
        /\ [dl'[d] EXCEPT !.state = "-", !.runs = 0]
              = [dl[d] EXCEPT !.state = "-", !.runs = 0]
        /\ dl'[d].state = "removed" =>
              /\ rq.pc = "added" /\ rq'.pc = "done" /\ rq'.result = "ok"
              /\ rq.jobId = d /\ rq.source = "dead-letter queue"
              /\ Present(main, rq.newId) /\ rq.newId # dl[d].from
              /\ main[rq.newId].via = "requeue"
              /\ main[rq.newId].sent = dl[d].message
        /\ \A k \in MainIds :
              (main[k].state = "none" /\ main'[k].state # "none"
                  /\ main'[k].via = "requeue" /\ rq.jobId = d
                  /\ rq.source = "dead-letter queue") =>
                 (rq.pc = "found" /\ rq'.pc = "added" /\ rq'.newId = k)

C21_Removed ==
    \A d \in DlIds : dl[d].state = "removed" =>
        \E k \in MainIds : /\ main[k].state # "none" /\ main[k].via = "requeue"
                           /\ main[k].sent = dl[d].message /\ k # dl[d].from

C21_DeadLetterMonotonic == []C21_Removed /\ [][C21_Step]_vars

C21_Witness ==
    /\ rq.pc = "done" /\ rq.result = "ok" /\ rq.source = "dead-letter queue"
    /\ dl[rq.jobId].state = "removed"
    /\ main[dl[rq.jobId].from].state = "completed"
    /\ main[rq.newId].state = "active" /\ main[rq.newId].via = "requeue"

\* C22: getBackoffDelay(n) is 1000 * 2^(n-1) for every attempt number n >= 1
\* (1000, 2000, 4000, 8000, 16000 for n = 1..5 and 512000 for n = 10), it is
\* 500 for n = 0, the result for n+1 is twice the result for n, every call
\* returns a number, and MAX_RETRY_ATTEMPTS is 5
C22_BackoffDelay ==
    /\ MAX_RETRY_ATTEMPTS = 5
    /\ calc.calls >= 1 =>
          /\ calc.delay \in Nat \ {0}
          /\ calc.n >= 1 => calc.delay = 1000 * 2^(calc.n - 1)
          /\ calc.n \in 1..5 =>
                calc.delay = <<1000, 2000, 4000, 8000, 16000>>[calc.n]
          /\ calc.n = 10 => calc.delay = 512000
          /\ calc.n = 0 => calc.delay = 500
    /\ (calc.calls >= 2 /\ calc.n = calc.prevN + 1) =>
          calc.delay = 2 * calc.prevDelay

C22_Witness ==
    /\ calc.calls = 2
    /\ calc.prevN = 9 /\ calc.prevDelay = 256000
    /\ calc.n = 10 /\ calc.delay = 512000

\* C23: process re-throws the delivery error, unchanged, exactly when the
\* failed attempt had attemptCount < MAX_RETRY_ATTEMPTS: the store then counts
\* a failed attempt with that error as its reason; on a failure with
\* attemptCount >= MAX_RETRY_ATTEMPTS it adds the dead-letter record and
\* returns normally, and on success it returns normally: the store completes
\* the job and counts no failed attempt
C23_Step ==
    \A j \in MainIds : main[j].state = "active" =>
        \* the handler ends by throwing
        /\ main'[j].state \in {"delayed", "failed"} =>
              /\ main[j].phase = "updated"
              /\ main[j].attemptCount - 1 < MAX_RETRY_ATTEMPTS
              /\ main[j].err \in deliverErrors(main[j].message)
              /\ main'[j].failedReason = main[j].err
              /\ main'[j].attemptsMade = main[j].attemptsMade + 1
        \* the handler ends by returning
        /\ main'[j].state = "completed" =>
              /\ main'[j].attemptsMade = main[j].attemptsMade
              /\ main'[j].failedReason = main[j].failedReason
              /\ \/ main[j].phase = "deliver" /\ main'[j].delivered
                 \/ /\ main[j].phase = "added" /\ ~main'[j].delivered
                    /\ main[j].attemptCount >= MAX_RETRY_ATTEMPTS
                    /\ DeadLettered(j)
        \* a rejected delivery is followed by the throw below the limit and
        \* by the dead-letter record at the limit
        /\ (main[j].phase = "deliver" /\ main'[j].phase = "updated") =>
              main[j].attemptCount < MAX_RETRY_ATTEMPTS
        /\ (main[j].phase = "deliver" /\ main'[j].phase = "alerted") =>
              main[j].attemptCount >= MAX_RETRY_ATTEMPTS
        /\ main'[j].state \in {"active", "delayed", "failed", "completed"}

C23_RethrowsBelowLimit == [][C23_Step]_vars

C23_Witness ==
    \E j \in MainIds :
        /\ main[j].state = "completed" /\ ~main[j].delivered
        /\ DeadLettered(j)
        /\ main[j].attemptsMade = MAX_RETRY_ATTEMPTS - 1
        /\ main[j].failedReason = ""

\* C24 as stated: after a failed attempt below the limit with error E, the
\* stored lastError is E.message
C24_LastErrorIsMessage ==
    \A j \in MainIds : main[j].phase = "updated" =>
        main[j].lastError = main[j].err

\* C24: after a failed attempt with attemptCount = k < MAX_RETRY_ATTEMPTS and
\* error E, and before the error is propagated, the stored job data has
\* attemptCount = k + 1 and lastError = E.message, or 'Unknown error' when
\* E.message is empty, with message and firstAttemptedAt unchanged; lastError
\* is the text of the most recent error after every failed attempt
C24_Step ==
    \A j \in MainIds :
        (main[j].phase = "deliver" /\ main'[j].phase = "updated") =>
            /\ main[j].attemptCount < MAX_RETRY_ATTEMPTS
            /\ main'[j].state = "active"
            /\ main'[j].attemptCount = main[j].attemptCount + 1
            /\ main'[j].err \in deliverErrors(main[j].message)
            /\ main'[j].lastError =
                  IF main'[j].err = "" THEN "Unknown error" ELSE main'[j].err
            /\ main'[j].message = main[j].message
            /\ main'[j].firstAttemptedAt = main[j].firstAttemptedAt

C24_Updated ==
    \A j \in MainIds : main[j].phase = "updated" =>
        /\ main[j].lastError =
              IF main[j].err = "" THEN "Unknown error" ELSE main[j].err
        /\ main[j].attemptCount = main[j].calls + 1

C24_RetryUpdate == []C24_Updated /\ [][C24_Step]_vars

C24_Witness ==
    \E j \in MainIds :
        /\ main[j].state = "active" /\ main[j].phase = "updated"
        /\ main[j].attemptCount = 3
        /\ main[j].err = "" /\ main[j].lastError = "Unknown error"
        /\ main[j].failedReason = "Simulated delivery failure"

\* C25: firstAttemptedAt of a job is never reset: every step, a retry update
\* included, leaves it as addMessage set it, and the dead-letter record
\* created for the job carries the same value and keeps it; only the new job
\* a requeue creates has a fresh firstAttemptedAt, the time of the requeue
C25_Step ==
    /\ \A j \in MainIds :
          IF main[j].state # "none"
          THEN main'[j].firstAttemptedAt = main[j].firstAttemptedAt
          ELSE main'[j].state # "none" =>
                 /\ main'[j].firstAttemptedAt = now
                 /\ main'[j].via = "requeue" =>
                       /\ rq.pc = "found"
                       /\ rq.source = "dead-letter queue" =>
                             main'[j].firstAttemptedAt
                                 > dl[rq.jobId].firstAttemptedAt
    /\ \A d \in DlIds :
          IF dl[d].state # "none"
          THEN dl'[d].firstAttemptedAt = dl[d].firstAttemptedAt
          ELSE dl'[d].state # "none" =>
                 dl'[d].firstAttemptedAt = main[dl'[d].from].firstAttemptedAt

C25_Kept ==
    \A d \in DlIds : dl[d].state # "none" =>
        /\ dl[d].firstAttemptedAt = main[dl[d].from].firstAttemptedAt
        /\ dl[d].firstAttemptedAt < dl[d].movedToDeadLetterAt

C25_FirstAttemptedAtKept == []C25_Kept /\ [][C25_Step]_vars

C25_Witness ==
    /\ rq.pc = "done" /\ rq.result = "ok" /\ rq.source = "dead-letter queue"
    /\ dl[rq.jobId].firstAttemptedAt = main[dl[rq.jobId].from].firstAttemptedAt
    /\ main[rq.newId].firstAttemptedAt > dl[rq.jobId].firstAttemptedAt
    /\ main[rq.newId].firstAttemptedAt >= dl[rq.jobId].movedToDeadLetterAt
    /\ main[rq.newId].attemptCount = 2
    /\ main[rq.newId].state = "delayed"

\* C26: the message of a job is immutable after enqueue: no step, a retry
\* update included, changes the message of a MAIN job or of a dead-letter
\* record; the dead-letter record created for a job carries the job's
\* message, and the job a requeue creates carries the message of the record it
\* was created from
C26_Step ==
    /\ \A j \in MainIds :
          IF main[j].state # "none"
          THEN main'[j].message = main[j].message
          ELSE (main'[j].state # "none" /\ main'[j].via = "requeue") =>
                 /\ rq.pc = "found"
                 /\ rq.source = "dead-letter queue" =>
                       main'[j].message = dl[rq.jobId].message
                 /\ rq.source = "failed jobs" =>
                       main'[j].message = main[rq.jobId].message
    /\ \A d \in DlIds :
          IF dl[d].state # "none"
          THEN dl'[d].message = dl[d].message
          ELSE dl'[d].state # "none" =>
                 dl'[d].message = main[dl'[d].from].message

C26_Same ==
    /\ \A d \in DlIds : dl[d].state # "none" =>
          /\ dl[d].message = main[dl[d].from].message
          /\ dl[d].message # NoMessage
    /\ \A j \in MainIds : main[j].state # "none" =>
          /\ main[j].message.id = main[j].sent.id
          /\ main[j].message.channel = main[j].sent.channel
          /\ main[j].message.metadata = main[j].sent.metadata

C26_MessageImmutable == []C26_Same /\ [][C26_Step]_vars

C26_Witness ==
    /\ rq.pc = "done" /\ rq.result = "ok" /\ rq.source = "dead-letter queue"
    /\ main[rq.newId].message = dl[rq.jobId].message
    /\ main[rq.newId].message = main[dl[rq.jobId].from].message
    /\ main[rq.newId].message.channel = "sms"
    /\ main[rq.newId].attemptCount > 1

\* C27 as stated: every job in MAIN is WAITING, DELAYED, ACTIVE, COMPLETED or
\* FAILED, and every job in DEAD_LETTER is WAITING or COMPLETED
C27_DeadLetterWaitingOrCompleted ==
    /\ \A j \in MainIds : Present(main, j) =>
          main[j].state \in {"waiting", "delayed", "active", "completed", "failed"}
    /\ \A d \in DlIds : Present(dl, d) =>
          dl[d].state \in {"waiting", "completed"}

\* C27: in every reachable state every job in MAIN is WAITING, DELAYED,
\* ACTIVE, COMPLETED or FAILED, and every job in DEAD_LETTER is WAITING,
\* ACTIVE or COMPLETED: ACTIVE while the dead-letter processor, which takes
\* one entry at a time, processes it, and never DELAYED or FAILED
C27_JobStates ==
    /\ \A j \in MainIds : Present(main, j) =>
          main[j].state \in {"waiting", "delayed", "active", "completed", "failed"}
    /\ \A d \in DlIds : Present(dl, d) =>
          /\ dl[d].state \in {"waiting", "active", "completed"}
          /\ dl[d].state = "waiting" <=> dl[d].runs = 0
    /\ CountIn(dl, "active") <= 1

C27_Witness ==
    \E d \in DlIds :
        /\ dl[d].state = "active" /\ dl[d].runs = 1
        /\ main[dl[d].from].state = "completed"
        /\ QueueCounts.deadLetterQueue.active = 1

\* C28: the message processor is a fixed pool of 5: in every reachable state
\* at most 5 MAIN jobs are ACTIVE, each holding a worker slot of its own,
\* however many jobs are ready
C28_AtMostFiveActive ==
    /\ CountIn(main, "active") <= 5
    /\ concurrency = 5
    /\ \A j \in MainIds :
          Cardinality(main[j].lockedBy) = IF main[j].state = "active" THEN 1 ELSE 0
    /\ \A j, k \in MainIds :
          j # k => main[j].lockedBy \cap main[k].lockedBy = {}

C28_Witness ==
    /\ CountIn(main, "active") = 5
    /\ CountIn(main, "waiting") >= 1
    /\ FreeSlots = {}

\* C29: retries of one message do not block others: a job waiting out its
\* backoff is DELAYED in the store and holds no worker slot, so that a slot is
\* free for a ready job whenever fewer than 5 jobs are ACTIVE; under fair
\* scheduling of the workers a ready job is reserved and its handler run ends,
\* whether or not the clock advances and the delays of other jobs run out
C29_NoSlotWhileDelayed ==
    /\ \A j \in MainIds : main[j].state = "delayed" => main[j].lockedBy = {}
    /\ Cardinality(Slots \ FreeSlots) = CountIn(main, "active")
    /\ CountIn(main, "active") < concurrency => FreeSlots # {}

C29_RetriesDoNotBlock ==
    /\ []C29_NoSlotWhileDelayed
    /\ \A k \in 1..PoolIds :
          /\ (main[k].state = "waiting") ~> (main[k].state = "active")
          /\ (main[k].state = "active")
                ~> (main[k].state \in {"completed", "delayed", "failed"})

C29_Witness ==
    \E j, k \in MainIds :
        /\ main[j].state = "delayed" /\ main[j].notBefore > now
        /\ main[k].state = "active" /\ main[k].firstAttemptedAt = now
        /\ main[k].lockedBy = {1}

\* the record a requeue looked up is in its queue, with the message
C30_InOriginal ==
    IF rq.source = "dead-letter queue"
    THEN Present(dl, rq.jobId) /\ dl[rq.jobId].message = rq.message
    ELSE Present(main, rq.jobId) /\ main[rq.jobId].message = rq.message

\* the MAIN job a requeue created is in MAIN, with the message
C30_InNewJob ==
    /\ rq.newId \in MainIds
    /\ rq.source = "failed jobs" => rq.newId # rq.jobId
    /\ Present(main, rq.newId)
    /\ main[rq.newId].via = "requeue"
    /\ main[rq.newId].message = rq.message

\* C30: requeueFromDeadLetter is enqueue-then-remove and never loses the
\* message: after the lookup the original record holds it, after the enqueue
\* step the original and the new MAIN job both hold it, also when the call
\* stops there or its remove step fails, and after the remove step the new
\* MAIN job holds it; the original is removed only when the new job exists
C30_Held ==
    /\ rq.pc = "found" => C30_InOriginal /\ rq.message # NoMessage
    /\ rq.pc = "added" => C30_InOriginal /\ C30_InNewJob
    /\ (rq.pc = "done" /\ rq.result = "Locked") => C30_InOriginal /\ C30_InNewJob
    /\ (rq.pc = "done" /\ rq.result = "ok") => ~C30_InOriginal /\ C30_InNewJob

C30_Step ==
    /\ \A d \in DlIds :
          (Present(dl, d) /\ ~Present(dl', d)) =>
              (rq.pc = "added" /\ rq.jobId = d /\ C30_InNewJob)
    /\ \A j \in MainIds :
          (Present(main, j) /\ ~Present(main', j)) =>
              (rq.pc = "added" /\ rq.jobId = j /\ C30_InNewJob)

C30_RequeueNeverLoses == []C30_Held /\ [][C30_Step]_vars

C30_Witness ==
    /\ rq.pc = "done" /\ rq.result = "Locked"
    /\ dl[rq.jobId].state = "active" /\ dl[rq.jobId].message = rq.message
    /\ Present(main, rq.newId) /\ main[rq.newId].message = rq.message

\* the handler the factory is to return for a channel value
C31_Handler(channel) ==
    CASE channel = "http" -> "httpWebhookChannel"
      [] channel = "email" -> "emailChannel"
      [] channel = "internal" -> "internalServiceChannel"
      [] OTHER -> "none"

\* C31: getChannel maps http, email and internal to the HTTP webhook, email
\* and internal-service handler and fails with an 'Unknown delivery channel
\* type' error for every other value; each deliver(message) of a process call
\* invokes the handler of message.channel once and no other handler, and
\* invokes no handler when the resolution fails, which the job's failure then
\* reports
C31_Resolution ==
    \A j \in MainIds : main[j].state # "none" =>
        LET c == main[j].message.channel IN
        /\ C31_Handler(c) # "none" =>
              /\ Len(main[j].invoked) = main[j].calls
              /\ \A i \in 1..Len(main[j].invoked) :
                    main[j].invoked[i] = C31_Handler(c)
              /\ main[j].lastError # "Unknown delivery channel type: " \o c
        /\ C31_Handler(c) = "none" =>
              /\ main[j].invoked = <<>>
              /\ ~main[j].delivered
              /\ main[j].phase = "updated" =>
                    main[j].err = "Unknown delivery channel type: " \o c

C31_Witness ==
    \E j, k \in MainIds :
        /\ main[j].message.channel = "email" /\ main[j].delivered
        /\ main[j].invoked = <<"emailChannel">>
        /\ main[k].message.channel = "HTTP" /\ main[k].state = "delayed"
        /\ main[k].invoked = <<>> /\ main[k].calls = 1
        /\ main[k].lastError = "Unknown delivery channel type: HTTP"

\* C32: a requeueFromDeadLetter call that fails with NotFound, or with
\* NotRequeueable for a MAIN job that is not FAILED, leaves both queues as
\* they were: no job is added to MAIN and none is removed from either queue
C32_Step ==
    (rq' # rq /\ rq'.pc = "done"
        /\ rq'.result \in {"NotFound", "NotRequeueable"}) =>
        /\ main' = main
        /\ dl' = dl
        /\ rq'.newId = 0
        /\ rq'.result = "NotFound" =>
              ~Present(dl, rq'.jobId) /\ ~Present(main, rq'.jobId)
        /\ rq'.result = "NotRequeueable" =>
              /\ ~Present(dl, rq'.jobId) /\ Present(main, rq'.jobId)
              /\ main[rq'.jobId].state # "failed"

C32_FailedRequeueChangesNothing == [][C32_Step]_vars

C32_Witness ==
    /\ rq.pc = "done" /\ rq.result = "NotRequeueable" /\ rq.newId = 0
    /\ main[rq.jobId].state = "completed" /\ main[rq.jobId].delivered
    /\ NextId(main) = 2
    /\ \A d \in DlIds : dl[d].state = "none"

\* C33 (as claimed): under any interleaving of two concurrent
\* requeueFromDeadLetter calls for the same dead-letter job, at most one new
\* MAIN job is created for that dead-letter record
C33_AtMostOneNewJob ==
    \A d \in DlIds : dl[d].state # "none" =>
        Cardinality({k \in MainIds : /\ main[k].via = "requeue"
                                     /\ main[k].sent = dl[d].message}) <= 1

\* C34 (as claimed): at the start of every process call of a MAIN job,
\* job.data.attemptCount is the number of failed attempts the store has
\* counted for the job plus one, also after job.updateData or
\* deadLetterQueue.add has failed; so the store fails no job for good whose
\* attemptCount is below MAX_RETRY_ATTEMPTS
C34_CountersInStep ==
    \A j \in MainIds :
        /\ (main[j].state = "active" /\ main[j].phase = "deliver") =>
              main[j].attemptCount = main[j].attemptsMade + 1
        /\ main[j].state = "failed" =>
              main[j].attemptCount >= MAX_RETRY_ATTEMPTS

\* C35 (as claimed): for every id of a FAILED job in MAIN, when DEAD_LETTER
\* holds no record under that id or one of a different message,
\* requeueFromDeadLetter(id) takes the MAIN job: it requeues that job's
\* message and removes that job, and leaves the dead-letter record alone
C35_RequeuesTheFailedJob ==
    (/\ rq.pc \in {"found", "added"}
     /\ Present(main, rq.jobId) /\ main[rq.jobId].state = "failed"
     /\ Present(dl, rq.jobId) =>
           dl[rq.jobId].message # main[rq.jobId].message) =>
        /\ rq.source = "failed jobs"
        /\ rq.message = main[rq.jobId].message

\* the data of a MAIN job
C36_Data(job) ==
    <<job.message, job.attemptCount, job.lastError, job.firstAttemptedAt>>

\* the number of records ever added to DEAD_LETTER
C36_Added(q) == Cardinality({d \in DOMAIN q : q[d].state # "none"})

\* C36: each process call has at most one store effect, chosen by its
\* outcome: a call that delivered wrote nothing; a call that failed below the
\* limit updated the job data once and added nothing to DEAD_LETTER; a call
\* that failed at the limit added one dead-letter record and did not update
\* the data of the MAIN job
C36_Effects ==
    \A j \in MainIds : main[j].calls >= 1 =>
        /\ main[j].effects.updates + main[j].effects.adds <= 1
        /\ (main[j].state = "completed" /\ main[j].delivered) =>
              main[j].effects = [updates |-> 0, adds |-> 0]
        /\ main[j].state \in {"delayed", "waiting", "failed"} =>
              main[j].effects = [updates |-> 1, adds |-> 0]
        /\ (main[j].state = "completed" /\ ~main[j].delivered) =>
              /\ main[j].effects = [updates |-> 0, adds |-> 1]
              /\ Cardinality({d \in DlIds : dl[d].state # "none"
                                             /\ dl[d].from = j}) = 1

C36_Step ==
    /\ C36_Added(dl') <= C36_Added(dl) + 1
    /\ \A j \in MainIds : main[j].state = "active" =>
          /\ C36_Data(main'[j]) # C36_Data(main[j]) =>
                /\ main[j].phase = "deliver" /\ main'[j].phase = "updated"
                /\ main[j].attemptCount < MAX_RETRY_ATTEMPTS
                /\ main'[j].effects.updates = main[j].effects.updates + 1
                /\ dl' = dl
          /\ main'[j].phase = "added" /\ main[j].phase # "added" =>
                /\ main[j].attemptCount >= MAX_RETRY_ATTEMPTS
                /\ C36_Added(dl') = C36_Added(dl) + 1
          /\ main'[j].delivered /\ ~main[j].delivered => dl' = dl
    /\ C36_Added(dl') # C36_Added(dl) =>
          \E j \in MainIds : main[j].phase = "alerted" /\ main'[j].phase = "added"

C36_OneStoreEffect == []C36_Effects /\ [][C36_Step]_vars

C36_Witness ==
    \E j \in MainIds :
        /\ main[j].state = "completed" /\ ~main[j].delivered
        /\ main[j].calls = MAX_RETRY_ATTEMPTS
        /\ main[j].effects = [updates |-> 0, adds |-> 1]
        /\ main[j].attemptCount = MAX_RETRY_ATTEMPTS

\* the terminal branch of job j ended with a rejected deadLetterQueue.add
C37_AddFailed(j) ==
    /\ main[j].attemptCount >= MAX_RETRY_ATTEMPTS
    /\ \/ main[j].state = "active" /\ main[j].phase = "threw"
       \/ main[j].state = "failed"

C37_Kept ==
    \A j \in MainIds : C37_AddFailed(j) =>
        /\ main[j].message \in Messages
        /\ ~main[j].delivered
        /\ ~DeadLettered(j)
        /\ (main[j].state = "failed" /\ ~Present(dl, j)) =>
              requeueTarget(j) =
                  [result |-> "found", source |-> "failed jobs",
                   message |-> main[j].message, state |-> "failed"]

C37_Step ==
    \A j \in MainIds :
        /\ (main[j].state = "active" /\ main[j].phase = "alerted"
                /\ main'[j] # main[j] /\ dl' = dl) =>
              /\ main'[j].state = "active" /\ main'[j].phase = "threw"
              /\ main'[j].attemptCount >= MAX_RETRY_ATTEMPTS
        /\ (C37_AddFailed(j) /\ main[j].state = "active"
                /\ main'[j] # main[j]) =>
              /\ main'[j].state = "failed"
              /\ main'[j].failedReason = StoreError
              /\ main'[j].message = main[j].message
        /\ (C37_AddFailed(j) /\ main[j].state = "failed"
                /\ main'[j] # main[j]) =>
              /\ main'[j].state = "removed"
              /\ rq.jobId = j /\ rq.source = "failed jobs"
              /\ rq.newId \in MainIds /\ rq.newId # j
              /\ main[rq.newId].message = main[j].message

C38_EveryRecordListed ==
    \A d \in DlIds : Present(dl, d) => d \in getDeadLetterJobs

\* an admin alert for job j has been sent to some recipient
C39_AlertSent(j) ==
    \E i \in 1..Len(main[j].alerts.attempted) :
        main[j].alerts.attempted[i] \notin main[j].alerts.failed

\* C39: an admin alert is sent only for a message that has a dead-letter
\* record: if an alert has been sent for a job, a dead-letter record of that
\* job exists or has existed
C39_AlertOnlyWithRecord ==
    \A j \in MainIds : C39_AlertSent(j) => DeadLettered(j)

====
